---- MODULE Spec2Model ----
(***************************************************************************)
(* Model of python_server.py, the host-side controller of the ESP32 SMB    *)
(* scanner: the serial frame decoder (serial_reader_thread), the status    *)
(* waiter registry, the prompt gate and the console command dispatcher.    *)
(*                                                                         *)
(* DecoderSpec runs the reader thread alone on byte-level chunks and keeps  *)
(* a history of what it emitted.  Spec runs the console loop, the reader   *)
(* thread, the hold timers, the wait_and_release threads and the           *)
(* connection loop concurrently, one scheduling point per step; FairSpec   *)
(* adds the scheduling of timers and threads, RaceSpec a second console    *)
(* line.                                                                   *)
(***************************************************************************)
EXTENDS Integers, Sequences, FiniteSets, TLC

VARIABLES
    buffer,          \* serial_reader_thread: the local bytearray `buffer`
    stream,          \* history: every byte read since the buffer was last empty at session start
    events,          \* history: Status / Debug events emitted by the decoder, in order
    notified,        \* history: arguments of the notify_status_waiters calls, in order
    truncated,       \* history: TRUE once `del buffer[:-256]` has discarded bytes
    status_waiters,  \* the global list status_waiters
    setCount,        \* per waiter: number of event.set() calls made by notify_status_waiters
    hits,            \* history, per waiter: notify calls that found it registered and interested
    prompt_ready,    \* prompt_ready_event
    stop_event,      \* stop_event
    timers,          \* pending threading.Timer objects started by hold_prompt
    port,            \* esp32_serial_port: "none" or "open"
    writes,          \* history: command texts written to the transport
    wifi_config,     \* contents of wifi_config.json, an insertion-ordered mapping
    cpc,             \* handle_user_commands: control point of the console thread
    cpend,           \* handle_user_commands: arguments of the hold_prompt_until_status call in progress
    nCmds,           \* number of input lines read so far
    lastMsg,         \* the last message the console printed or logged for a command
    wt,              \* wait_and_release threads, one per hold_prompt_until_status call
    rpc,             \* serial_reader_thread: control point of the reader thread
    rev,             \* serial_reader_thread: the frame being dispatched (status_str, ip_str)
    rtriggered,      \* notify_status_waiters: the local list `triggered` not yet set
    nChunks,         \* number of non-empty chunks the reader has read so far
    awaitedSeen,     \* history: commands for which an awaited status was decoded after their write
    leftover,        \* history: how many bytes at the head of buffer were read before the last read fault
    lock,            \* status_waiters_lock: the thread that holds it, or LockFree
    ltmp             \* per thread: the list a comprehension has built and not yet assigned to status_waiters[:]

decVars == <<buffer, stream, events, notified, truncated>>
regVars == <<status_waiters, setCount, hits, prompt_ready, stop_event, timers>>
conVars == <<port, writes, wifi_config, cpc, cpend, nCmds, lastMsg, wt>>
rdrVars == <<rpc, rev, rtriggered, nChunks, awaitedSeen, leftover>>
lockVars == <<lock, ltmp>>
vars == <<decVars, regVars, conVars, rdrVars, lockVars>>

-----------------------------------------------------------------------------
(* Program constants *)

MAGIC_BYTE == 171
report_size == 5
BufferCap == 2048
BufferKeep == 256
DEFAULT_PROMPT_DELAY == 800

NEWLINE == 10

\* Mutant of STATUS_MAP: the two scan-cycle names are exchanged.
STATUS_MAP_CycleNamesSwapped ==
    [c \in {10, 11, 15, 16, 1, 2, 3, 4, 5, 6} |->
        CASE c = 10 -> "WIFI_CONNECT_SUCCESS"
          [] c = 11 -> "WIFI_CONNECT_FAILURE"
          [] c = 15 -> "SCANNING_TARGET"
          [] c = 16 -> "DEVICE_READY"
          [] c = 1  -> "TARGET_UNREACHABLE"
          [] c = 2  -> "PORT_OPEN"
          [] c = 3  -> "SERVICE_NO_RESPONSE"
          [] c = 4  -> "SERVICE_RESPONDED"
          [] c = 5  -> "SCAN_CYCLE_END"
          [] c = 6  -> "SCAN_CYCLE_START"]

STATUS_MAP ==
    [c \in {10, 11, 15, 16, 1, 2, 3, 4, 5, 6} |->
        CASE c = 10 -> "WIFI_CONNECT_SUCCESS"
          [] c = 11 -> "WIFI_CONNECT_FAILURE"
          [] c = 15 -> "SCANNING_TARGET"
          [] c = 16 -> "DEVICE_READY"
          [] c = 1  -> "TARGET_UNREACHABLE"
          [] c = 2  -> "PORT_OPEN"
          [] c = 3  -> "SERVICE_NO_RESPONSE"
          [] c = 4  -> "SERVICE_RESPONDED"
          [] c = 5  -> "SCAN_CYCLE_START"
          [] c = 6  -> "SCAN_CYCLE_END"]

-----------------------------------------------------------------------------
(* Bounds of the model *)

MaxStream == 7
MaxTail == 3
MaxCmds == 1
MaxRaceCmds == 2
MaxChunks == 1
MaxRaceChunks == 2
MaxWaiters == 3
MaxNotifies == 1

-----------------------------------------------------------------------------
(* Frame decoding: struct.unpack('<IB'), socket.htonl, IPv4Address, STATUS_MAP.get *)

\* A 32-bit unsigned value is kept as two 16-bit halves [hi, lo] (value = hi*65536 + lo),
\* because the model checker's integers are 32-bit signed.
UnpackLE32(b) == [hi |-> b[3] + 256 * b[4], lo |-> b[1] + 256 * b[2]]

Swap16(h) == (h % 256) * 256 + (h \div 256)

\* Mutant of htonl: the value is passed through without the byte swap.
htonl_NoSwap(v) == v

\* socket.htonl on a little-endian host: reverses the four bytes of the value.
htonl(v) == [hi |-> Swap16(v.lo), lo |-> Swap16(v.hi)]

\* str(ipaddress.IPv4Address(v)): the four decimal fields, most significant byte first.
IPv4Str(v) == <<v.hi \div 256, v.hi % 256, v.lo \div 256, v.lo % 256>>

StatusName(code) ==
    IF code \in DOMAIN STATUS_MAP THEN STATUS_MAP[code]
    ELSE "UNKNOWN (" \o ToString(code) \o ")"

\* packet = buffer[1:1+report_size]: four address bytes and the status byte.
StatusEvent(packet) ==
    [type |-> "status",
     ip   |-> IPv4Str(htonl(UnpackLE32(SubSeq(packet, 1, 4)))),
     code |-> packet[5],
     name |-> StatusName(packet[5]),
     text |-> <<>>]

-----------------------------------------------------------------------------
(* Debug lines: line.decode('utf-8', errors='ignore').strip() *)

IsCont(b) == b >= 128 /\ b <= 191

\* Length of the well-formed UTF-8 sequence that starts at index i of s, or 0.
Utf8Len(s, i) ==
    LET n == Len(s)
        b == s[i]
        c(k) == IF i + k <= n THEN s[i + k] ELSE 0
    IN  IF b < 128 THEN 1
        ELSE IF b >= 194 /\ b <= 223 THEN (IF IsCont(c(1)) THEN 2 ELSE 0)
        ELSE IF b >= 224 /\ b <= 239 THEN
            (IF /\ IsCont(c(1)) /\ IsCont(c(2))
                /\ (b = 224 => c(1) >= 160)
                /\ (b = 237 => c(1) <= 159)
             THEN 3 ELSE 0)
        ELSE IF b >= 240 /\ b <= 244 THEN
            (IF /\ IsCont(c(1)) /\ IsCont(c(2)) /\ IsCont(c(3))
                /\ (b = 240 => c(1) >= 144)
                /\ (b = 244 => c(1) <= 143)
             THEN 4 ELSE 0)
        ELSE 0

\* Code point of the well-formed sequence at index i, or -1 when none starts there.
Utf8At(s, i) ==
    LET k == Utf8Len(s, i)
    IN  CASE k = 0 -> -1
          [] k = 1 -> s[i]
          [] k = 2 -> (s[i] - 192) * 64 + (s[i+1] - 128)
          [] k = 3 -> (s[i] - 224) * 4096 + (s[i+1] - 128) * 64 + (s[i+2] - 128)
          [] k = 4 -> (s[i] - 240) * 262144 + (s[i+1] - 128) * 4096
                        + (s[i+2] - 128) * 64 + (s[i+3] - 128)

\* Mutant of DecodeUtf8Ignore: errors='replace', every byte outside a well-formed
\* sequence becomes U+FFFD.
DecodeUtf8Ignore_Replace(s) ==
    SelectSeq([i \in 1..Len(s) |->
                  IF Utf8At(s, i) >= 0 THEN Utf8At(s, i)
                  ELSE IF \E j \in 1..3 : i - j >= 1 /\ Utf8Len(s, i - j) > j THEN -1
                  ELSE 65533],
              LAMBDA cp : cp >= 0)

\* errors='ignore': bytes that do not belong to a well-formed sequence are dropped.
\* A continuation byte never starts a sequence, so the well-formed sequences are
\* exactly those that start at a lead byte.
DecodeUtf8Ignore(s) ==
    SelectSeq([i \in 1..Len(s) |-> Utf8At(s, i)], LAMBDA cp : cp >= 0)

\* str.isspace() for one code point
IsSpace(cp) ==
    \/ cp \in 9..13 \/ cp \in 28..32 \/ cp = 133 \/ cp = 160
    \/ cp = 5760 \/ cp \in 8192..8202 \/ cp \in {8232, 8233, 8239, 8287, 12288}

\* str.strip()
Strip(t) ==
    LET keep == SelectSeq([i \in 1..Len(t) |-> IF IsSpace(t[i]) THEN 0 ELSE i],
                          LAMBDA i : i > 0)
    IN  IF keep = <<>> THEN <<>> ELSE SubSeq(t, keep[1], keep[Len(keep)])

DebugEvent(line) ==
    [type |-> "debug", ip |-> <<>>, code |-> -1, name |-> "",
     text |-> Strip(DecodeUtf8Ignore(line))]

-----------------------------------------------------------------------------
(* One iteration of the `while buffer:` loop of serial_reader_thread *)

\* buffer.find(b'\n') + 1, i.e. 0 when there is no newline
FindNewline(buf) ==
    LET at == SelectSeq([i \in 1..Len(buf) |-> IF buf[i] = NEWLINE THEN i ELSE 0],
                        LAMBDA i : i > 0)
    IN  IF at = <<>> THEN 0 ELSE at[1]

\* Mutant of ExtractUnit: a marker at the head of a short buffer is not waited for
\* but handed to the text branch.
ExtractUnit_ShortFrameAsText(buf) ==
    IF buf[1] = MAGIC_BYTE /\ Len(buf) >= 1 + report_size THEN
        [kind |-> "frame", rest |-> SubSeq(buf, 2 + report_size, Len(buf)),
         unit |-> SubSeq(buf, 2, 1 + report_size), cut |-> FALSE]
    ELSE
        LET newline_idx == FindNewline(buf)
        IN  IF newline_idx = 0 THEN
                IF Len(buf) > BufferCap
                THEN [kind |-> "break", unit |-> <<>>, cut |-> TRUE,
                      rest |-> SubSeq(buf, Len(buf) - BufferKeep + 1, Len(buf))]
                ELSE [kind |-> "break", rest |-> buf, unit |-> <<>>, cut |-> FALSE]
            ELSE [kind |-> "line", rest |-> SubSeq(buf, newline_idx + 1, Len(buf)),
                  unit |-> SubSeq(buf, 1, newline_idx), cut |-> FALSE]

\* Mutant of ExtractUnit: the overflow cut is taken at 2048 bytes instead of above.
ExtractUnit_CutAtCap(buf) ==
    IF buf[1] = MAGIC_BYTE THEN
        IF Len(buf) < 1 + report_size
        THEN [kind |-> "break", rest |-> buf, unit |-> <<>>, cut |-> FALSE]
        ELSE [kind |-> "frame", rest |-> SubSeq(buf, 2 + report_size, Len(buf)),
              unit |-> SubSeq(buf, 2, 1 + report_size), cut |-> FALSE]
    ELSE
        LET newline_idx == FindNewline(buf)
        IN  IF newline_idx = 0 THEN
                IF Len(buf) >= BufferCap
                THEN [kind |-> "break", unit |-> <<>>, cut |-> TRUE,
                      rest |-> SubSeq(buf, Len(buf) - BufferKeep + 1, Len(buf))]
                ELSE [kind |-> "break", rest |-> buf, unit |-> <<>>, cut |-> FALSE]
            ELSE [kind |-> "line", rest |-> SubSeq(buf, newline_idx + 1, Len(buf)),
                  unit |-> SubSeq(buf, 1, newline_idx), cut |-> FALSE]

\* Mutant of ExtractUnit: an unterminated buffer is never cut.
ExtractUnit_NoCap(buf) ==
    IF buf[1] = MAGIC_BYTE THEN
        IF Len(buf) < 1 + report_size
        THEN [kind |-> "break", rest |-> buf, unit |-> <<>>, cut |-> FALSE]
        ELSE [kind |-> "frame", rest |-> SubSeq(buf, 2 + report_size, Len(buf)),
              unit |-> SubSeq(buf, 2, 1 + report_size), cut |-> FALSE]
    ELSE
        LET newline_idx == FindNewline(buf)
        IN  IF newline_idx = 0
            THEN [kind |-> "break", rest |-> buf, unit |-> <<>>, cut |-> FALSE]
            ELSE [kind |-> "line", rest |-> SubSeq(buf, newline_idx + 1, Len(buf)),
                  unit |-> SubSeq(buf, 1, newline_idx), cut |-> FALSE]

\* kind "frame": a status report was consumed;  "line": a debug line was consumed;
\* "break": the loop stops and waits for more data (rest is what stays buffered).
ExtractUnit(buf) ==
    IF buf[1] = MAGIC_BYTE THEN
        IF Len(buf) < 1 + report_size
        THEN [kind |-> "break", rest |-> buf, unit |-> <<>>, cut |-> FALSE]
        ELSE [kind |-> "frame", rest |-> SubSeq(buf, 2 + report_size, Len(buf)),
              unit |-> SubSeq(buf, 2, 1 + report_size), cut |-> FALSE]
    ELSE
        LET newline_idx == FindNewline(buf)
        IN  IF newline_idx = 0 THEN
                IF Len(buf) > BufferCap
                THEN [kind |-> "break", unit |-> <<>>, cut |-> TRUE,
                      rest |-> SubSeq(buf, Len(buf) - BufferKeep + 1, Len(buf))]
                ELSE [kind |-> "break", rest |-> buf, unit |-> <<>>, cut |-> FALSE]
            ELSE [kind |-> "line", rest |-> SubSeq(buf, newline_idx + 1, Len(buf)),
                  unit |-> SubSeq(buf, 1, newline_idx), cut |-> FALSE]

\* The events of one unit: a frame always logs, a debug line only `if message:`.
UnitEvents(u) ==
    IF u.kind = "frame" THEN <<StatusEvent(u.unit)>>
    ELSE IF u.kind = "line" /\ DebugEvent(u.unit).text # <<>> THEN <<DebugEvent(u.unit)>>
    ELSE <<>>

\* Mutant of DecodeLoop: the loop runs one iteration per chunk instead of draining
\* the buffer.
DecodeLoop_OneUnit(buf, evs, cut) ==
    IF buf = <<>> THEN [buffer |-> buf, events |-> evs, cut |-> cut]
    ELSE LET u == ExtractUnit(buf)
         IN  [buffer |-> u.rest, events |-> evs \o UnitEvents(u), cut |-> cut \/ u.cut]

\* The whole `while buffer:` loop, from buffer buf with evs already emitted.
RECURSIVE DecodeLoop(_, _, _)
DecodeLoop(buf, evs, cut) ==
    IF buf = <<>> THEN [buffer |-> buf, events |-> evs, cut |-> cut]
    ELSE LET u == ExtractUnit(buf)
         IN  IF u.kind = "break"
             THEN [buffer |-> u.rest, events |-> evs, cut |-> cut \/ u.cut]
             ELSE DecodeLoop(u.rest, evs \o UnitEvents(u), cut)

-----------------------------------------------------------------------------
(* Waiter registry *)

\* One waiter identity per command that can be read
Max(a, b) == IF a > b THEN a ELSE b

Ids == 1..Max(Max(MaxCmds, MaxRaceCmds), MaxWaiters)

register_status_waiter(ws, statuses, id) ==
    Append(ws, [statuses |-> statuses, event |-> id])

unregister_status_waiter_KeepsAll(ws, id) == ws

unregister_status_waiter(ws, id) ==
    SelectSeq(ws, LAMBDA w : w.event # id)

\* Mutant of NotifyTriggered: only the first interested waiter is triggered.
NotifyTriggered_FirstOnly(ws, status) ==
    LET all == SelectSeq(ws, LAMBDA w : status \in w.statuses)
    IN  IF all = <<>> THEN <<>> ELSE <<Head(all)>>

\* notify_status_waiters, the part under the lock: the local list `triggered` ...
NotifyTriggered(ws, status) ==
    SelectSeq(ws, LAMBDA w : status \in w.statuses)

\* Mutant of NotifyKept: the triggered waiters are left in the registry.
NotifyKept_KeepsAll(ws, status) == ws

\* ... and what is left in status_waiters
NotifyKept(ws, status) ==
    LET triggered == NotifyTriggered(ws, status)
    IN  SelectSeq(ws, LAMBDA w : ~ \E i \in 1..Len(triggered) : triggered[i] = w)

\* No hold_prompt_until_status call in progress
NoPend == [id |-> 0, statuses |-> {}, timeout |-> 0, fallback |-> 0]

\* A wait_and_release thread that has not been started
NoThread == [pc |-> "none", triggered |-> FALSE, timeout |-> 0, fallback |-> 0]

\* Threads that take status_waiters_lock: the reader (notify), the console
\* (register) and the wait thread of each hold (unregister), named by its id
ReaderThread == 0
ConsoleThread == -1
LockFree == -2

\* No comprehension result is pending in any thread
NoLocals == [t \in {ReaderThread} \cup Ids |-> <<>>]

\* No frame being dispatched
NoEvent == [type |-> "none", ip |-> <<>>, code |-> -1, name |-> "", text |-> <<>>]

EventsOf(ws) == {ws[i].event : i \in 1..Len(ws)}

InRegistry(id) == id \in EventsOf(status_waiters)

-----------------------------------------------------------------------------
(* Status dispatch of one decoded frame, as the reader thread does it when no *)
(* other thread runs in between                                              *)

\* The branch of the if/elif chain that ends in release_prompt()
ReachesReadyBranch(ev) ==
    /\ ev.code \notin {10, 11, 15}
    /\ ev.ip = <<0, 0, 0, 0>>
    /\ ev.name = "DEVICE_READY"

\* st = [ws, sc, hits, ready, notified]
DispatchOne(ev, st) ==
    LET triggered == EventsOf(NotifyTriggered(st.ws, ev.name))
    IN  [ws       |-> NotifyKept(st.ws, ev.name),
         sc       |-> [id \in DOMAIN st.sc |->
                          IF id \in triggered THEN st.sc[id] + 1 ELSE st.sc[id]],
         hits     |-> [id \in DOMAIN st.hits |->
                          IF id \in triggered THEN st.hits[id] + 1 ELSE st.hits[id]],
         ready    |-> st.ready \/ (ReachesReadyBranch(ev) /\ Len(st.ws) = 0),
         notified |-> Append(st.notified, ev.name)]

RECURSIVE Dispatch(_, _)
Dispatch(evs, st) ==
    IF evs = <<>> THEN st
    ELSE Dispatch(Tail(evs),
                  IF Head(evs).type = "status" THEN DispatchOne(Head(evs), st) ELSE st)

-----------------------------------------------------------------------------
(* DecoderSpec: the reader thread alone, fed byte-level chunks *)

Alphabet == {MAGIC_BYTE, NEWLINE, 65, 200}

SmallChunks ==
    {<<a>> : a \in Alphabet} \cup {<<a, b>> : a \in Alphabet, b \in Alphabet}

FrameCodes == DOMAIN STATUS_MAP \cup {0, 200}

FrameAddrs == {<<0, 0, 0, 0>>, <<192, 168, 1, 42>>}

FrameBytes(addr, code) == <<MAGIC_BYTE>> \o addr \o <<code>>

Frames == {FrameBytes(a, c) : a \in FrameAddrs, c \in FrameCodes}

FramePieces ==
    Frames \cup {SubSeq(f, 1, 3) : f \in Frames} \cup {SubSeq(f, 4, 6) : f \in Frames}

\* A run of unterminated text one byte short of the buffer cap
NoiseBlock == [i \in 1..(BufferCap - 1) |-> 65]

\* The same run with one marker byte in it, where the trailing BufferKeep bytes
\* begin once two more bytes have arrived
MarkedNoiseBlock ==
    [i \in 1..(BufferCap - 1) |-> IF i = BufferCap - BufferKeep + 2 THEN MAGIC_BYTE ELSE 65]

HasNoise == Len(stream) >= BufferCap - 1

\* One pass of the reader loop with a non-empty chunk: buffer.extend(chunk), the
\* whole `while buffer:` loop, and for every frame the dispatch and the notify.
ReadChunk(chunk) ==
    /\ port = "open"
    /\ ~stop_event
    /\ LET r == DecodeLoop(buffer \o chunk, <<>>, FALSE)
           d == Dispatch(r.events, [ws |-> status_waiters, sc |-> setCount,
                                    hits |-> hits, ready |-> prompt_ready,
                                    notified |-> notified])
       IN  /\ buffer' = r.buffer
           /\ stream' = stream \o chunk
           /\ events' = events \o r.events
           /\ truncated' = (truncated \/ r.cut)
           /\ status_waiters' = d.ws
           /\ setCount' = d.sc
           /\ hits' = d.hits
           /\ prompt_ready' = d.ready
           /\ notified' = d.notified
    /\ nChunks' = nChunks + 1
    /\ UNCHANGED <<lockVars, stop_event, timers, conVars, rpc, rev, rtriggered,
                   awaitedSeen, leftover>>

ReadSmall ==
    \E c \in SmallChunks :
        /\ Len(stream) + Len(c) <= (IF HasNoise THEN BufferCap + MaxTail ELSE MaxStream)
        /\ ReadChunk(c)

ReadFramePiece ==
    \E c \in FramePieces :
        /\ ~HasNoise
        /\ Len(stream) + Len(c) <= MaxStream
        /\ ReadChunk(c)

ReadNoise ==
    /\ Len(stream) <= 1
    /\ \E c \in {NoiseBlock, MarkedNoiseBlock} : ReadChunk(c)

DecInit ==
    /\ buffer = <<>> /\ stream = <<>> /\ events = <<>> /\ notified = <<>>
    /\ truncated = FALSE
    /\ status_waiters = <<>>
    /\ setCount = [id \in Ids |-> 0]
    /\ hits = [id \in Ids |-> 0]
    /\ prompt_ready = TRUE
    /\ stop_event = FALSE
    /\ timers = {}
    /\ port = "open"
    /\ writes = <<>>
    /\ wifi_config = <<>>
    /\ cpc = "start"
    /\ cpend = NoPend
    /\ nCmds = 0
    /\ lastMsg = ""
    /\ wt = [id \in Ids |-> NoThread]
    /\ rpc = "idle"
    /\ rev = NoEvent
    /\ rtriggered = <<>>
    /\ nChunks = 0
    /\ awaitedSeen = {}
    /\ leftover = 0
    /\ lock = LockFree
    /\ ltmp = NoLocals

DecNext == ReadSmall \/ ReadFramePiece \/ ReadNoise

DecoderSpec == DecInit /\ [][DecNext]_vars

-----------------------------------------------------------------------------
(* Properties of the decoder *)

\* The bytes the step has read
NewBytes == SubSeq(stream', Len(stream) + 1, Len(stream'))

WholeDecode == DecodeLoop(stream, <<>>, FALSE)

\* C1 (as stated): decoding the chunks one by one emits the same events as decoding
\* the whole byte sequence of the session as a single chunk.
C1_ChunkingEquivalence == events = WholeDecode.events

\* C1 (amended): as long as the overflow truncation has not discarded bytes while the
\* chunks were fed, decoding the chunks one by one emits the same events as decoding
\* the whole byte sequence as a single chunk.
C1_ChunkingEquivalenceNoOverflow == ~truncated => events = WholeDecode.events

C1_Witness ==
    /\ nChunks >= 3
    /\ ~truncated
    /\ \E i, j \in 1..Len(events) : events[i].type = "status" /\ events[j].type = "debug"

\* C4: while the buffer starts with the marker and holds fewer than 6 bytes the
\* decoder emits nothing and consumes nothing; the frame's Status Event is emitted
\* by the step that brings the 6th byte, whatever the chunk boundaries.
C4_NoPartialFrame ==
    [][ LET nb == buffer \o NewBytes
        IN  (stream' # stream /\ nb[1] = MAGIC_BYTE) =>
                IF Len(nb) < 6
                THEN events' = events /\ notified' = notified /\ buffer' = nb
                ELSE /\ Len(events') > Len(events)
                     /\ events'[Len(events) + 1].type = "status"
                     /\ events'[Len(events) + 1].code = nb[6] ]_vars

C4_Witness ==
    /\ nChunks >= 2
    /\ Len(buffer) = 5
    /\ buffer[1] = MAGIC_BYTE
    /\ events = <<>>

\* The status table as the specification words it
SpecStatusName(code) ==
    CASE code = 10 -> "CONNECT_SUCCESS"
      [] code = 11 -> "CONNECT_FAILURE"
      [] code = 15 -> "SCANNING_TARGET"
      [] code = 16 -> "DEVICE_READY"
      [] code = 1  -> "TARGET_UNREACHABLE"
      [] code = 2  -> "PORT_OPEN"
      [] code = 3  -> "SERVICE_NO_RESPONSE"
      [] code = 4  -> "SERVICE_RESPONDED"
      [] code = 5  -> "SCAN_CYCLE_START"
      [] code = 6  -> "SCAN_CYCLE_END"
      [] OTHER     -> "UNKNOWN(" \o ToString(code) \o ")"

\* The status table with the names the program logs and notifies
LoggedStatusName(code) ==
    CASE code = 10 -> "WIFI_CONNECT_SUCCESS"
      [] code = 11 -> "WIFI_CONNECT_FAILURE"
      [] code = 15 -> "SCANNING_TARGET"
      [] code = 16 -> "DEVICE_READY"
      [] code = 1  -> "TARGET_UNREACHABLE"
      [] code = 2  -> "PORT_OPEN"
      [] code = 3  -> "SERVICE_NO_RESPONSE"
      [] code = 4  -> "SERVICE_RESPONDED"
      [] code = 5  -> "SCAN_CYCLE_START"
      [] code = 6  -> "SCAN_CYCLE_END"
      [] code = 0   -> "UNKNOWN (0)"
      [] code = 65  -> "UNKNOWN (65)"
      [] code = 171 -> "UNKNOWN (171)"
      [] code = 200 -> "UNKNOWN (200)"
      [] OTHER      -> "UNKNOWN (" \o ToString(code) \o ")"

StatusEvents == SelectSeq(events, LAMBDA e : e.type = "status")

\* Every frame yields one Status Event and one notify with the event's name.
EveryFrameNotified ==
    /\ Len(notified) = Len(StatusEvents)
    /\ \A i \in 1..Len(notified) : notified[i] = StatusEvents[i].name

C10_AddressWireOrder ==
    /\ [](stream = FrameBytes(<<192, 168, 1, 42>>, 10) =>
            /\ Len(events) = 1
            /\ events[1].ip = <<192, 168, 1, 42>>)
    /\ [](stream = FrameBytes(<<0, 0, 0, 0>>, 6) =>
            /\ Len(events) = 1
            /\ events[1].ip = <<0, 0, 0, 0>>)
    /\ [][ LET nb == buffer \o NewBytes
           IN  (stream' # stream /\ nb[1] = MAGIC_BYTE /\ Len(nb) >= 6) =>
                   events'[Len(events) + 1].ip = <<nb[2], nb[3], nb[4], nb[5]>> ]_vars

C10_Witness ==
    /\ stream = FrameBytes(<<192, 168, 1, 42>>, 10)
    /\ Len(events) = 1
    /\ events[1].ip = <<192, 168, 1, 42>>
    /\ events[1].ip # <<42, 1, 168, 192>>

\* C11: when the buffer, once the chunk is appended, does not start with the marker
\* and holds no newline, then with more than 2048 bytes exactly its trailing 256
\* bytes are kept, and with at most 2048 bytes it is left as it is; in both cases
\* no event is emitted and nothing is notified.
C11_OverflowKeepsTail ==
    [][ LET nb == buffer \o NewBytes
        IN  (stream' # stream /\ nb[1] # MAGIC_BYTE /\ FindNewline(nb) = 0) =>
                /\ events' = events
                /\ notified' = notified
                /\ IF Len(nb) > BufferCap
                   THEN /\ Len(buffer') = BufferKeep
                        /\ buffer' = SubSeq(nb, Len(nb) - BufferKeep + 1, Len(nb))
                   ELSE buffer' = nb ]_vars

\* Both sides of the limit were seen: 2048 unterminated bytes were buffered whole,
\* and the next byte cut the buffer to 256.
C11_Witness ==
    /\ Len(stream) = BufferCap + 1
    /\ nChunks >= 3
    /\ truncated
    /\ Len(buffer) = BufferKeep
    /\ events = <<>>

\* The bytes of a line classified one by one: the code point where a well-formed
\* UTF-8 sequence starts, -1 inside such a sequence, -2 for a byte that is not valid text
Utf8Mark(line, i) ==
    IF Utf8Len(line, i) > 0 THEN Utf8At(line, i)
    ELSE IF \E j \in 1..3 : i - j >= 1 /\ Utf8Len(line, i - j) > j THEN -1
    ELSE -2

Utf8Marks(line) == [i \in 1..Len(line) |-> Utf8Mark(line, i)]

HasInvalidBytes(line) == \E i \in 1..Len(line) : Utf8Mark(line, i) = -2

\* The text with every invalid byte rendered as the replacement character U+FFFD
ReplacedText(line) ==
    LET shown == SelectSeq(Utf8Marks(line), LAMBDA m : m # -1)
    IN  Strip([i \in 1..Len(shown) |-> IF shown[i] = -2 THEN 65533 ELSE shown[i]])

\* The text with every invalid byte left out
DroppedText(line) == Strip(SelectSeq(Utf8Marks(line), LAMBDA m : m >= 0))

\* The reader did not stop in front of a unit it could decode
Drained(buf) == buf = <<>> \/ ExtractUnit(buf).kind = "break"

-----------------------------------------------------------------------------
(* Console input: lines as shlex.split returns them *)

Line(kind, tokens) == [kind |-> kind, tokens |-> tokens]

JoinLines ==
    {Line("tokens", <<"join">> \o a) : a \in
        {<<>>, <<"-i">>, <<"-i", "x">>, <<"-i", "0">>, <<"-i", "1">>, <<"-i", "-1">>,
         <<"-s">>, <<"-s", "home">>, <<"-p", "pw1">>, <<"-s", "home", "-p">>,
         <<"-s", "home", "-p", "pw1">>, <<"-s", "home", "-p", "pw2">>, <<"-x">>,
         <<"-i", "5", "-s", "home", "-p", "pw1">>}}

ScanLines ==
    {Line("tokens", <<"scan">> \o a) : a \in
        {<<>>, <<"-all">>, <<"-t">>, <<"-x">>, <<"-t", "192.168.1.42">>,
         <<"-t", "999.999.999.999">>, <<"-t", "10.0.0">>, <<"-t", "host">>}}

OtherLines ==
    {Line("tokens", <<v>>) : v \in
        {"help", "HELP", "exit", "quit", "q", "clear", "status", "networks", "ipconfig",
         "randomize_mac", "reboot", "bogus"}}

\* input() raising EOFError / KeyboardInterrupt, an empty line, a line that
\* shlex.split rejects
SpecialLines == {Line(k, <<>>) : k \in {"eof", "interrupt", "blank", "parse_error"}}

Lines == JoinLines \cup ScanLines \cup OtherLines \cup SpecialLines

\* str.lower() on the verbs that are typed
Lower(tok) ==
    CASE tok = "HELP" -> "help"
      [] OTHER -> tok

\* int(tok): the tokens that int() accepts, with their values
IntTokens == [t \in {"0", "1", "5", "-1"} |->
                CASE t = "0" -> 0 [] t = "1" -> 1 [] t = "5" -> 5 [] t = "-1" -> -1]

\* tok.split('.') with every part read as a decimal number, -1 for a part that is not one
IPv4Fields(tok) ==
    CASE tok = "192.168.1.42"    -> <<192, 168, 1, 42>>
      [] tok = "999.999.999.999" -> <<999, 999, 999, 999>>
      [] tok = "10.0.0"          -> <<10, 0, 0>>
      [] OTHER                   -> <<-1>>

\* ipaddress.IPv4Address(tok) does not raise AddressValueError
IsIPv4Address(tok) ==
    LET f == IPv4Fields(tok)
    IN  Len(f) = 4 /\ \A i \in 1..4 : f[i] \in 0..255

-----------------------------------------------------------------------------
(* Command handlers.  A handler is an operator from the argument tokens (and the *)
(* saved networks) to what it does: the message it prints, the store it leaves,  *)
(* the command text it sends (or ""), and how it holds the prompt.               *)

\* The handler ends in hold_prompt(delay) without touching the transport
LocalHold(msg, saved, delay) ==
    [msg |-> msg, config |-> saved, send |-> "", statuses |-> {},
     timeout |-> 0, delay |-> delay, exit |-> FALSE]

\* The handler sends text; then hold_prompt_until_status(statuses, timeout, delay),
\* or hold_prompt(delay) when statuses is empty
SendThen(msg, saved, text, statuses, timeout, delay) ==
    [msg |-> msg, config |-> saved, send |-> text, statuses |-> statuses,
     timeout |-> timeout, delay |-> delay, exit |-> FALSE]

cmd_help(args, saved) == LocalHold("help", saved, DEFAULT_PROMPT_DELAY)

\* Mutant of cmd_exit: the handler only holds the prompt and leaves stop_event alone.
cmd_exit_OnlyHolds(args, saved) ==
    [msg |-> "Exit requested. Stopping server...", config |-> saved, send |-> "",
     statuses |-> {}, timeout |-> 0, delay |-> DEFAULT_PROMPT_DELAY, exit |-> FALSE]

cmd_exit(args, saved) ==
    [msg |-> "Exit requested. Stopping server...", config |-> saved, send |-> "",
     statuses |-> {}, timeout |-> 0, delay |-> 0, exit |-> TRUE]

cmd_clear(args, saved) == LocalHold("clear", saved, 300)

cmd_status(args, saved) == LocalHold("Status:", saved, DEFAULT_PROMPT_DELAY)

cmd_networks(args, saved) ==
    IF Len(saved) = 0
    THEN LocalHold("No networks saved.", saved, DEFAULT_PROMPT_DELAY)
    ELSE LocalHold("Saved networks:", saved, DEFAULT_PROMPT_DELAY)

\* cmd_ipconfig: found says whether subprocess.run finds the ipconfig program
cmd_ipconfig(args, saved, found) ==
    IF found THEN LocalHold("ipconfig", saved, 1200)
    ELSE LocalHold("ipconfig command not found.", saved, DEFAULT_PROMPT_DELAY)

\* The option loop of cmd_join; st = [ssid, password, hasIndex, index, err]
RECURSIVE JoinOptions(_, _, _)
JoinOptions(args, i, st) ==
    IF i > Len(args) THEN st
    ELSE LET token == args[i]
             hasNext == i + 1 <= Len(args)
         IN  IF token \in {"-i", "--index"} THEN
                 IF hasNext /\ args[i + 1] \in DOMAIN IntTokens
                 THEN JoinOptions(args, i + 2,
                        [st EXCEPT !.hasIndex = TRUE, !.index = IntTokens[args[i + 1]]])
                 ELSE [st EXCEPT !.err = "Usage: join -i <index>"]
             ELSE IF token \in {"-s", "--ssid"} THEN
                 IF hasNext
                 THEN JoinOptions(args, i + 2, [st EXCEPT !.ssid = args[i + 1]])
                 ELSE [st EXCEPT !.err = "Usage: join -s <ssid> -p <password>"]
             ELSE IF token \in {"-p", "--password"} THEN
                 IF hasNext
                 THEN JoinOptions(args, i + 2, [st EXCEPT !.password = args[i + 1]])
                 ELSE [st EXCEPT !.err = "Usage: join -s <ssid> -p <password>"]
             ELSE [st EXCEPT !.err = "Unknown option"]

\* saved.get(ssid)
SavedGet(saved, ssid) ==
    LET at == SelectSeq(saved, LAMBDA n : n.ssid = ssid)
    IN  IF at = <<>> THEN "" ELSE at[1].password

\* saved[ssid] = password on an insertion-ordered mapping
SavedPut(saved, ssid, password) ==
    IF \E i \in 1..Len(saved) : saved[i].ssid = ssid
    THEN [i \in 1..Len(saved) |->
            IF saved[i].ssid = ssid THEN [ssid |-> ssid, password |-> password]
            ELSE saved[i]]
    ELSE Append(saved, [ssid |-> ssid, password |-> password])

JoinStatuses == {"WIFI_CONNECT_SUCCESS", "WIFI_CONNECT_FAILURE"}

\* Mutant of cmd_join: the lower bound of the index check is missing, so index -1
\* selects the last saved network, as list indexing does.
cmd_join_NoLowerBound(args, saved) ==
    LET o == JoinOptions(args, 1, [ssid |-> "", password |-> "", hasIndex |-> FALSE,
                                   index |-> 0, err |-> ""])
        at == IF o.index < 0 THEN Len(saved) + 1 + o.index ELSE o.index + 1
    IN  IF o.err # "" THEN LocalHold(o.err, saved, DEFAULT_PROMPT_DELAY)
        ELSE IF o.hasIndex THEN
            IF Len(saved) = 0
            THEN LocalHold("No saved networks available.", saved, DEFAULT_PROMPT_DELAY)
            ELSE IF o.index < Len(saved) /\ at >= 1
            THEN SendThen("Joining saved network", saved,
                          "join " \o saved[at].ssid \o " " \o saved[at].password,
                          JoinStatuses, 25000, 500)
            ELSE LocalHold("Error: Index out of bounds.", saved, DEFAULT_PROMPT_DELAY)
        ELSE IF o.ssid # "" /\ o.password # "" THEN
            SendThen("Joining new network",
                     IF SavedGet(saved, o.ssid) # o.password
                     THEN SavedPut(saved, o.ssid, o.password) ELSE saved,
                     "join " \o o.ssid \o " " \o o.password, JoinStatuses, 25000, 500)
        ELSE LocalHold("Usage: join", saved, DEFAULT_PROMPT_DELAY)

cmd_join(args, saved) ==
    LET o == JoinOptions(args, 1, [ssid |-> "", password |-> "", hasIndex |-> FALSE,
                                   index |-> 0, err |-> ""])
    IN  IF o.err # "" THEN LocalHold(o.err, saved, DEFAULT_PROMPT_DELAY)
        ELSE IF o.hasIndex THEN
            IF Len(saved) = 0
            THEN LocalHold("No saved networks available.", saved, DEFAULT_PROMPT_DELAY)
            ELSE IF 0 <= o.index /\ o.index < Len(saved)
            THEN SendThen("Joining saved network", saved,
                          "join " \o saved[o.index + 1].ssid \o " "
                                  \o saved[o.index + 1].password,
                          JoinStatuses, 25000, 500)
            ELSE LocalHold("Error: Index out of bounds.", saved, DEFAULT_PROMPT_DELAY)
        ELSE IF o.ssid # "" /\ o.password # "" THEN
            SendThen("Joining new network",
                     IF SavedGet(saved, o.ssid) # o.password
                     THEN SavedPut(saved, o.ssid, o.password) ELSE saved,
                     "join " \o o.ssid \o " " \o o.password, JoinStatuses, 25000, 500)
        ELSE LocalHold("Usage: join", saved, DEFAULT_PROMPT_DELAY)

cmd_scan(args, saved) ==
    IF Len(args) = 0
    THEN LocalHold("Usage: scan -all | scan -t <ipv4>", saved, DEFAULT_PROMPT_DELAY)
    ELSE IF args[1] \in {"-all", "--all"}
    THEN SendThen("Requested full subnet scan.", saved, "scan -all",
                  {"SCAN_CYCLE_END"}, 180000, 1000)
    ELSE IF args[1] = "-t" /\ Len(args) > 1 THEN
        IF ~IsIPv4Address(args[2])
        THEN LocalHold("Error: Invalid IPv4 address.", saved, DEFAULT_PROMPT_DELAY)
        ELSE SendThen("Requested targeted scan", saved, "scan -t " \o args[2],
                      {"SCAN_CYCLE_END"}, 60000, 800)
    ELSE LocalHold("Usage: scan -all | scan -t <ipv4>", saved, DEFAULT_PROMPT_DELAY)

cmd_randomize_mac(args, saved) ==
    SendThen("Requested MAC randomisation.", saved, "randomize_mac", {}, 0, 600)

\* Mutant of cmd_reboot: the wait is armed without a timeout (timeout=None).
cmd_reboot_NoTimeout(args, saved) ==
    SendThen("Reboot command sent. Waiting for ESP32 to reconnect...", saved, "reboot",
             {"DEVICE_READY"}, 0, 1000)

cmd_reboot(args, saved) ==
    SendThen("Reboot command sent. Waiting for ESP32 to reconnect...", saved, "reboot",
             {"DEVICE_READY"}, 20000, 1000)

Verbs == {"help", "exit", "quit", "q", "clear", "cls", "status", "networks", "join",
          "scan", "randomize_mac", "randomise_mac", "reboot", "ipconfig"}

\* command_map.get(command) applied to the arguments
command_map(command, args, saved, found) ==
    CASE command = "help" -> cmd_help(args, saved)
      [] command \in {"exit", "quit", "q"} -> cmd_exit(args, saved)
      [] command \in {"clear", "cls"} -> cmd_clear(args, saved)
      [] command = "status" -> cmd_status(args, saved)
      [] command = "networks" -> cmd_networks(args, saved)
      [] command = "join" -> cmd_join(args, saved)
      [] command = "scan" -> cmd_scan(args, saved)
      [] command \in {"randomize_mac", "randomise_mac"} -> cmd_randomize_mac(args, saved)
      [] command = "reboot" -> cmd_reboot(args, saved)
      [] command = "ipconfig" -> cmd_ipconfig(args, saved, found)

-----------------------------------------------------------------------------
(* Prompt gate *)

\* hold_prompt(delay): clear the gate and start a timer that sets it; id names the timer
hold_prompt(delay, id) ==
    /\ prompt_ready' = FALSE
    /\ timers' = timers \cup {[id |-> id, delay |-> delay]}

\* threading.Timer: the delay of a pending timer elapses and _release runs
TimerFire ==
    \E t \in timers :
        /\ timers' = timers \ {t}
        /\ prompt_ready' = TRUE
        /\ UNCHANGED <<lockVars, decVars, status_waiters, setCount, hits, stop_event, conVars, rdrVars>>

-----------------------------------------------------------------------------
(* Console thread: handle_user_commands *)

\* print_help(); hold_prompt(1.0) before the loop
ConsoleStart ==
    /\ cpc = "start"
    /\ hold_prompt(1000, 0)
    /\ cpc' = "wait"
    /\ UNCHANGED <<lockVars, decVars, status_waiters, setCount, hits, stop_event, rdrVars,
                   port, writes, wifi_config, cpend, nCmds, lastMsg, wt>>

\* while not stop_event.is_set(): prompt_ready_event.wait()
ConsoleWait ==
    /\ cpc = "wait"
    /\ IF stop_event THEN cpc' = "stopped" ELSE prompt_ready /\ cpc' = "input"
    /\ UNCHANGED <<lockVars, decVars, regVars, rdrVars,
                   port, writes, wifi_config, cpend, nCmds, lastMsg, wt>>

\* The line was read and no handler runs: hold_prompt() and continue
RejectLine(msg) ==
    /\ lastMsg' = msg
    /\ hold_prompt(DEFAULT_PROMPT_DELAY, nCmds + 1)
    /\ cpc' = "wait"
    /\ UNCHANGED <<stop_event, writes, wifi_config, cpend>>

\* Mutant of RunHandler: the dispatch loop has no `except Exception`, a write that
\* raises ends the console thread.
\* Mutant of RunHandler: send_serial_command writes without testing is_serial_ready.
RunHandler_NoReadyCheck(out, fault) ==
    /\ wifi_config' = out.config
    /\ IF out.exit THEN
            /\ stop_event' = TRUE
            /\ prompt_ready' = TRUE
            /\ lastMsg' = out.msg
            /\ cpc' = "wait"
            /\ UNCHANGED <<timers, writes, cpend>>
       ELSE IF out.send = "" THEN
            /\ lastMsg' = out.msg
            /\ hold_prompt(out.delay, nCmds + 1)
            /\ cpc' = "wait"
            /\ UNCHANGED <<stop_event, writes, cpend>>
       ELSE IF fault THEN
            /\ lastMsg' = "Command failed"
            /\ hold_prompt(DEFAULT_PROMPT_DELAY, nCmds + 1)
            /\ cpc' = "wait"
            /\ UNCHANGED <<stop_event, writes, cpend>>
       ELSE IF out.statuses = {} THEN
            /\ writes' = Append(writes, out.send)
            /\ lastMsg' = out.msg
            /\ hold_prompt(out.delay, nCmds + 1)
            /\ cpc' = "wait"
            /\ UNCHANGED <<stop_event, cpend>>
       ELSE
            /\ writes' = Append(writes, out.send)
            /\ lastMsg' = out.msg
            /\ cpend' = [id |-> nCmds + 1, statuses |-> out.statuses,
                         timeout |-> out.timeout, fallback |-> out.delay]
            /\ cpc' = "register"
            /\ UNCHANGED <<stop_event, prompt_ready, timers>>

\* Mutant of RunHandler: a fault of the write ends the console loop.
RunHandler_FaultEndsLoop(out, fault) ==
    /\ wifi_config' = out.config
    /\ IF out.exit THEN
            /\ stop_event' = TRUE
            /\ prompt_ready' = TRUE
            /\ lastMsg' = out.msg
            /\ cpc' = "wait"
            /\ UNCHANGED <<timers, writes, cpend>>
       ELSE IF out.send = "" THEN
            /\ lastMsg' = out.msg
            /\ hold_prompt(out.delay, nCmds + 1)
            /\ cpc' = "wait"
            /\ UNCHANGED <<stop_event, writes, cpend>>
       ELSE IF port # "open" THEN
            /\ lastMsg' = "ESP32 is not connected."
            /\ hold_prompt(DEFAULT_PROMPT_DELAY, nCmds + 1)
            /\ cpc' = "wait"
            /\ UNCHANGED <<stop_event, writes, cpend>>
       ELSE IF fault THEN
            /\ lastMsg' = "Command failed"
            /\ cpc' = "stopped"
            /\ UNCHANGED <<stop_event, prompt_ready, timers, writes, cpend>>
       ELSE IF out.statuses = {} THEN
            /\ writes' = Append(writes, out.send)
            /\ lastMsg' = out.msg
            /\ hold_prompt(out.delay, nCmds + 1)
            /\ cpc' = "wait"
            /\ UNCHANGED <<stop_event, cpend>>
       ELSE
            /\ writes' = Append(writes, out.send)
            /\ lastMsg' = out.msg
            /\ cpend' = [id |-> nCmds + 1, statuses |-> out.statuses,
                         timeout |-> out.timeout, fallback |-> out.delay]
            /\ cpc' = "register"
            /\ UNCHANGED <<stop_event, prompt_ready, timers>>

\* handler(tokens[1:]) up to the point where it returns or where
\* hold_prompt_until_status is entered; send_serial_command and the
\* `except Exception` of the dispatch loop included.  fault: the write raises.
RunHandler(out, fault) ==
    /\ wifi_config' = out.config
    /\ IF out.exit THEN
            /\ stop_event' = TRUE
            /\ prompt_ready' = TRUE
            /\ lastMsg' = out.msg
            /\ cpc' = "wait"
            /\ UNCHANGED <<timers, writes, cpend>>
       ELSE IF out.send = "" THEN
            /\ lastMsg' = out.msg
            /\ hold_prompt(out.delay, nCmds + 1)
            /\ cpc' = "wait"
            /\ UNCHANGED <<stop_event, writes, cpend>>
       ELSE IF port # "open" THEN
            /\ lastMsg' = "ESP32 is not connected."
            /\ hold_prompt(DEFAULT_PROMPT_DELAY, nCmds + 1)
            /\ cpc' = "wait"
            /\ UNCHANGED <<stop_event, writes, cpend>>
       ELSE IF fault THEN
            /\ lastMsg' = "Command failed"
            /\ hold_prompt(DEFAULT_PROMPT_DELAY, nCmds + 1)
            /\ cpc' = "wait"
            /\ UNCHANGED <<stop_event, writes, cpend>>
       ELSE IF out.statuses = {} THEN
            /\ writes' = Append(writes, out.send)
            /\ lastMsg' = out.msg
            /\ hold_prompt(out.delay, nCmds + 1)
            /\ cpc' = "wait"
            /\ UNCHANGED <<stop_event, cpend>>
       ELSE
            /\ writes' = Append(writes, out.send)
            /\ lastMsg' = out.msg
            /\ cpend' = [id |-> nCmds + 1, statuses |-> out.statuses,
                         timeout |-> out.timeout, fallback |-> out.delay]
            /\ cpc' = "register"
            /\ UNCHANGED <<stop_event, prompt_ready, timers>>

\* One pass of the loop body from input(PROMPT) on
ConsoleInput(line, found, fault) ==
    /\ cpc = "input"
    /\ nCmds' = nCmds + 1
    /\ CASE line.kind = "eof" ->
                /\ stop_event' = TRUE
                /\ cpc' = "stopped"
                /\ UNCHANGED <<prompt_ready, timers, writes, wifi_config, cpend, lastMsg>>
         [] line.kind \in {"interrupt", "blank"} ->
                /\ cpc' = "wait"
                /\ UNCHANGED <<stop_event, prompt_ready, timers, writes, wifi_config,
                               cpend, lastMsg>>
         [] line.kind = "parse_error" -> RejectLine("Parse error")
         [] line.kind = "tokens" ->
                LET command == Lower(line.tokens[1])
                IN  IF command \notin Verbs
                    THEN RejectLine("Unknown command.")
                    ELSE RunHandler(command_map(command, Tail(line.tokens),
                                                wifi_config, found), fault)
    /\ UNCHANGED <<lockVars, decVars, status_waiters, setCount, hits, rdrVars, port, wt>>

\* hold_prompt_until_status: event = register_status_waiter(statuses)
ConsoleRegister ==
    /\ cpc = "register"
    /\ status_waiters' = register_status_waiter(status_waiters, cpend.statuses, cpend.id)
    /\ cpc' = "arm"
    /\ UNCHANGED <<lockVars, decVars, setCount, hits, prompt_ready, stop_event, timers, rdrVars,
                   port, writes, wifi_config, cpend, nCmds, lastMsg, wt>>

\* hold_prompt_until_status: prompt_ready_event.clear() and the start of wait_and_release
ConsoleArm ==
    /\ cpc = "arm"
    /\ prompt_ready' = FALSE
    /\ wt' = [wt EXCEPT ![cpend.id] = [pc |-> "wait", triggered |-> FALSE,
                                       timeout |-> cpend.timeout,
                                       fallback |-> cpend.fallback]]
    /\ cpend' = NoPend
    /\ cpc' = "wait"
    /\ UNCHANGED <<lockVars, decVars, status_waiters, setCount, hits, stop_event, timers, rdrVars,
                   port, writes, wifi_config, nCmds, lastMsg>>

-----------------------------------------------------------------------------
(* wait_and_release threads *)

\* triggered = event.wait(timeout) returns True: the event is set.  The locals
\* timeout and fallback_delay are zeroed once they are not read again.
WaitSignalled(id) ==
    /\ wt[id].pc = "wait"
    /\ setCount[id] > 0
    /\ wt' = [wt EXCEPT ![id].pc = "unregister", ![id].triggered = TRUE,
                         ![id].timeout = 0]
    /\ UNCHANGED <<lockVars, decVars, regVars, rdrVars,
                   port, writes, wifi_config, cpc, cpend, nCmds, lastMsg>>

\* triggered = event.wait(timeout) returns False: the timeout elapsed first
WaitTimeout(id) ==
    /\ wt[id].pc = "wait"
    /\ setCount[id] = 0
    /\ wt[id].timeout # 0
    /\ wt' = [wt EXCEPT ![id].pc = "unregister", ![id].triggered = FALSE,
                         ![id].timeout = 0]
    /\ UNCHANGED <<lockVars, decVars, regVars, rdrVars,
                   port, writes, wifi_config, cpc, cpend, nCmds, lastMsg>>

\* Mutant of WaitUnregister: the waiter is unregistered only when it was triggered.
WaitUnregister_OnlyIfTriggered(id) ==
    /\ wt[id].pc = "unregister"
    /\ status_waiters' = IF wt[id].triggered
                          THEN unregister_status_waiter(status_waiters, id)
                          ELSE status_waiters
    /\ wt' = [wt EXCEPT ![id].pc = "release"]
    /\ UNCHANGED <<lockVars, decVars, setCount, hits, prompt_ready, stop_event, timers, rdrVars,
                   port, writes, wifi_config, cpc, cpend, nCmds, lastMsg>>

\* unregister_status_waiter(event)
WaitUnregister(id) ==
    /\ wt[id].pc = "unregister"
    /\ status_waiters' = unregister_status_waiter(status_waiters, id)
    /\ wt' = [wt EXCEPT ![id].pc = "release"]
    /\ UNCHANGED <<lockVars, decVars, setCount, hits, prompt_ready, stop_event, timers, rdrVars,
                   port, writes, wifi_config, cpc, cpend, nCmds, lastMsg>>

\* Mutant of WaitRelease: the gate is set only when the waiter was triggered.
WaitRelease_OnlyWhenTriggered(id) ==
    /\ wt[id].pc = "release"
    /\ prompt_ready' = (prompt_ready \/ wt[id].triggered)
    /\ wt' = [wt EXCEPT ![id].pc = "done", ![id].fallback = 0]
    /\ UNCHANGED <<lockVars, decVars, status_waiters, setCount, hits, stop_event, timers, rdrVars,
                   port, writes, wifi_config, cpc, cpend, nCmds, lastMsg>>

\* if not triggered and fallback_delay: time.sleep(fallback_delay); then
\* prompt_ready_event.set()
WaitRelease(id) ==
    /\ wt[id].pc = "release"
    /\ prompt_ready' = TRUE
    /\ wt' = [wt EXCEPT ![id].pc = "done", ![id].fallback = 0]
    /\ UNCHANGED <<lockVars, decVars, status_waiters, setCount, hits, stop_event, timers, rdrVars,
                   port, writes, wifi_config, cpc, cpend, nCmds, lastMsg>>

-----------------------------------------------------------------------------
(* Reader thread in Spec: serial_reader_thread, one scheduling point per step *)

\* What one read returns in Spec: one status frame, two of them, or the first half of one
DeviceFrames ==
    {FrameBytes(<<0, 0, 0, 0>>, 6), FrameBytes(<<0, 0, 0, 0>>, 16),
     FrameBytes(<<192, 168, 1, 42>>, 10), FrameBytes(<<192, 168, 1, 42>>, 16),
     FrameBytes(<<0, 0, 0, 0>>, 6) \o FrameBytes(<<0, 0, 0, 0>>, 6),
     SubSeq(FrameBytes(<<0, 0, 0, 0>>, 6), 1, 3)}

\* chunk = esp32_serial_port.read(waiting); buffer.extend(chunk), as long as fewer
\* than n non-empty chunks have been read
ReaderReadUpTo(n) ==
    /\ rpc = "idle"
    /\ port = "open"
    /\ ~stop_event
    /\ nChunks < n
    /\ \E chunk \in DeviceFrames : buffer' = buffer \o chunk
    /\ nChunks' = nChunks + 1
    /\ rpc' = "decode"
    /\ UNCHANGED <<lockVars, stream, events, notified, truncated, regVars, conVars,
                   rev, rtriggered, awaitedSeen, leftover>>

ReaderRead == ReaderReadUpTo(MaxChunks)

\* The read raises serial.SerialException: the port is closed and dropped
ReaderFault ==
    /\ rpc = "idle"
    /\ port = "open"
    /\ ~stop_event
    /\ port' = "none"
    /\ leftover' = Len(buffer)
    /\ UNCHANGED <<lockVars, decVars, regVars, rpc, rev, rtriggered, nChunks, awaitedSeen,
                   writes, wifi_config, cpc, cpend, nCmds, lastMsg, wt>>

\* The else branch of the loop: no open port, buffer.clear()
ReaderClear ==
    /\ rpc = "idle"
    /\ port # "open"
    /\ ~stop_event
    /\ buffer # <<>>
    /\ buffer' = <<>>
    /\ leftover' = 0
    /\ UNCHANGED <<lockVars, stream, events, notified, truncated, regVars, conVars,
                   rpc, rev, rtriggered, nChunks, awaitedSeen>>

\* One iteration of `while buffer:` up to the end of the message selection
ReaderDecode ==
    /\ rpc = "decode"
    /\ IF buffer = <<>> THEN
            /\ rpc' = "idle"
            /\ UNCHANGED <<buffer, rev>>
       ELSE LET u == ExtractUnit(buffer)
            IN  /\ buffer' = u.rest
                /\ CASE u.kind = "break" -> rpc' = "idle" /\ rev' = rev
                     [] u.kind = "line"  -> rpc' = "decode" /\ rev' = rev
                     [] u.kind = "frame" ->
                            /\ rev' = StatusEvent(u.unit)
                            /\ rpc' = IF ReachesReadyBranch(StatusEvent(u.unit))
                                      THEN "check" ELSE "notify"
    /\ leftover' = IF leftover > Len(buffer) - Len(buffer')
                   THEN leftover - (Len(buffer) - Len(buffer')) ELSE 0
    /\ UNCHANGED <<lockVars, stream, events, notified, truncated, regVars, conVars,
                   rtriggered, nChunks, awaitedSeen>>

\* with status_waiters_lock: waiting = len(status_waiters)
ReaderCheck ==
    /\ rpc = "check"
    /\ rpc' = IF Len(status_waiters) = 0 THEN "release" ELSE "notify"
    /\ UNCHANGED <<lockVars, decVars, regVars, conVars, rev, rtriggered, nChunks, awaitedSeen,
                   leftover>>

\* if waiting == 0: release_prompt()
ReaderRelease ==
    /\ rpc = "release"
    /\ prompt_ready' = TRUE
    /\ rpc' = "notify"
    /\ UNCHANGED <<lockVars, decVars, status_waiters, setCount, hits, stop_event, timers, conVars,
                   rev, rtriggered, nChunks, awaitedSeen, leftover>>

\* Commands whose text has been written, that wait for status name, and whose
\* timeout has not elapsed: the hold_prompt_until_status call is about to register,
\* or the waiter is registered and its thread has not timed out.
WrittenAwaiting(name) ==
    {id \in Ids :
        \/ cpc = "register" /\ cpend.id = id /\ name \in cpend.statuses
        \/ /\ \E i \in 1..Len(status_waiters) :
                    status_waiters[i].event = id /\ name \in status_waiters[i].statuses
           /\ ~(wt[id].pc = "unregister" /\ ~wt[id].triggered)}

\* notify_status_waiters(status_str), the part under the lock; status_str is not
\* read after it
ReaderNotify ==
    /\ rpc = "notify"
    /\ LET triggered == NotifyTriggered(status_waiters, rev.name)
       IN  /\ rtriggered' = [i \in 1..Len(triggered) |-> triggered[i].event]
           /\ hits' = [id \in Ids |-> IF id \in EventsOf(triggered)
                                      THEN hits[id] + 1 ELSE hits[id]]
           /\ rpc' = IF triggered = <<>> THEN "decode" ELSE "fire"
    /\ status_waiters' = NotifyKept(status_waiters, rev.name)
    /\ awaitedSeen' = awaitedSeen \cup WrittenAwaiting(rev.name)
    /\ notified' = Append(notified, rev.name)
    /\ rev' = NoEvent
    /\ UNCHANGED <<lockVars, buffer, stream, events, truncated, setCount, prompt_ready, stop_event,
                   timers, conVars, nChunks, leftover>>

\* for waiter in triggered: waiter["event"].set()
ReaderFire ==
    /\ rpc = "fire"
    /\ setCount' = [setCount EXCEPT ![Head(rtriggered)] = @ + 1]
    /\ rtriggered' = Tail(rtriggered)
    /\ rpc' = IF Tail(rtriggered) = <<>> THEN "decode" ELSE "fire"
    /\ UNCHANGED <<lockVars, decVars, status_waiters, hits, prompt_ready, stop_event, timers,
                   conVars, rev, nChunks, awaitedSeen, leftover>>

-----------------------------------------------------------------------------
(* Main thread: the connection loop *)

\* esp32_serial_port = serial.Serial(port_name, ...)
MainConnect ==
    /\ port = "none"
    /\ ~stop_event
    /\ port' = "open"
    /\ UNCHANGED <<lockVars, decVars, regVars, rdrVars,
                   writes, wifi_config, cpc, cpend, nCmds, lastMsg, wt>>

\* finally: stop_event is set, the open port is closed
MainShutdown ==
    /\ stop_event
    /\ port = "open"
    /\ port' = "closed"
    /\ UNCHANGED <<lockVars, decVars, regVars, rdrVars,
                   writes, wifi_config, cpc, cpend, nCmds, lastMsg, wt>>

-----------------------------------------------------------------------------
(* Spec: console, reader, timers, wait threads and connection loop together *)

Init ==
    /\ buffer = <<>> /\ stream = <<>> /\ events = <<>> /\ notified = <<>>
    /\ truncated = FALSE
    /\ status_waiters = <<>>
    /\ setCount = [id \in Ids |-> 0]
    /\ hits = [id \in Ids |-> 0]
    /\ prompt_ready = TRUE
    /\ stop_event = FALSE
    /\ timers = {}
    /\ port = "none"
    /\ writes = <<>>
    /\ wifi_config \in {<<>>, <<[ssid |-> "home", password |-> "pw1"]>>}
    /\ cpc = "start"
    /\ cpend = NoPend
    /\ nCmds = 0
    /\ lastMsg = ""
    /\ wt = [id \in Ids |-> NoThread]
    /\ rpc = "idle"
    /\ rev = NoEvent
    /\ rtriggered = <<>>
    /\ nChunks = 0
    /\ awaitedSeen = {}
    /\ leftover = 0
    /\ lock = LockFree
    /\ ltmp = NoLocals

\* Whether subprocess.run finds ipconfig matters to the ipconfig verb only
FoundChoices(line) ==
    IF line = Line("tokens", <<"ipconfig">>) THEN BOOLEAN ELSE {TRUE}

\* The transport write can raise only in a handler that calls send_serial_command
FaultChoices(line) ==
    IF line.kind = "tokens"
        /\ Lower(line.tokens[1]) \in {"join", "scan", "randomize_mac", "randomise_mac",
                                      "reboot"}
    THEN BOOLEAN ELSE {FALSE}

\* The user types one of Lines, as long as fewer than n lines have been read
ConsoleReadUpTo(n) ==
    /\ nCmds < n
    /\ \E line \in Lines :
            \E found \in FoundChoices(line), fault \in FaultChoices(line) :
                ConsoleInput(line, found, fault)

ConsoleRead == ConsoleReadUpTo(MaxCmds)

Console == ConsoleStart \/ ConsoleWait \/ ConsoleRead \/ ConsoleRegister \/ ConsoleArm

WaitThread(id) == WaitSignalled(id) \/ WaitTimeout(id) \/ WaitUnregister(id) \/ WaitRelease(id)

Reader == ReaderRead \/ ReaderFault \/ ReaderClear \/ ReaderDecode \/ ReaderCheck
            \/ ReaderRelease \/ ReaderNotify \/ ReaderFire

Next ==
    \/ Console
    \/ TimerFire
    \/ \E id \in Ids : WaitThread(id)
    \/ Reader
    \/ MainConnect
    \/ MainShutdown

Spec == Init /\ [][Next]_vars

\* Timers fire, started threads run, and the console thread runs whenever it is not
\* blocked in input(); nothing is assumed about the user or the device.
Fairness ==
    /\ WF_vars(TimerFire)
    /\ \A id \in Ids : WF_vars(WaitThread(id))
    /\ WF_vars(ConsoleStart \/ ConsoleWait \/ ConsoleRegister \/ ConsoleArm)

FairSpec == Spec /\ Fairness

\* RaceSpec: the same threads with room for a second console line and a second chunk
RaceConsoleRead == ConsoleReadUpTo(MaxRaceCmds)

RaceReaderRead == ReaderReadUpTo(MaxRaceChunks)

RaceNext ==
    \/ ConsoleStart \/ ConsoleWait \/ RaceConsoleRead \/ ConsoleRegister \/ ConsoleArm
    \/ TimerFire
    \/ \E id \in Ids : WaitThread(id)
    \/ RaceReaderRead \/ ReaderFault \/ ReaderClear \/ ReaderDecode \/ ReaderCheck
    \/ ReaderRelease \/ ReaderNotify \/ ReaderFire
    \/ MainConnect
    \/ MainShutdown

RaceSpec == Init /\ [][RaceNext]_vars

-----------------------------------------------------------------------------
(* RegistrySpec: the waiter registry and the gate under callers that use them
   freely.  The console calls hold_prompt_until_status with the arguments the
   handlers pass, the reader calls notify_status_waiters with the names of the
   status table, and every statement inside a `with status_waiters_lock:` block
   is a step of its own, so that the three registry functions interleave
   wherever the lock lets them. *)

\* with status_waiters_lock: thread t enters the block when no thread is inside one
Acquire_NoExclusion(t) == lock' = t

Acquire(t) ==
    /\ lock = LockFree
    /\ lock' = t

\* The (statuses, timeout, fallback_delay) arguments of two callers of
\* hold_prompt_until_status: cmd_join and cmd_scan -all
HoldArgs ==
    {[statuses |-> JoinStatuses, timeout |-> 25000, fallback |-> 500],
     [statuses |-> {"SCAN_CYCLE_END"}, timeout |-> 180000, fallback |-> 1000]}

\* A handler calls hold_prompt_until_status, as long as fewer than MaxWaiters
\* calls have been made
HoldCall ==
    /\ cpc = "wait"
    /\ nCmds < MaxWaiters
    /\ nCmds' = nCmds + 1
    /\ \E a \in HoldArgs :
            cpend' = [id |-> nCmds + 1, statuses |-> a.statuses,
                      timeout |-> a.timeout, fallback |-> a.fallback]
    /\ cpc' = "register"
    /\ UNCHANGED <<ltmp, lock, decVars, regVars, rdrVars,
                   port, writes, wifi_config, lastMsg, wt>>

\* register_status_waiter: with status_waiters_lock
RegisterLock ==
    /\ cpc = "register"
    /\ Acquire(ConsoleThread)
    /\ cpc' = "append"
    /\ UNCHANGED <<ltmp, decVars, regVars, rdrVars,
                   port, writes, wifi_config, cpend, nCmds, lastMsg, wt>>

\* register_status_waiter: status_waiters.append(...) and the end of the block
RegisterAppend ==
    /\ cpc = "append"
    /\ status_waiters' = register_status_waiter(status_waiters, cpend.statuses, cpend.id)
    /\ lock' = LockFree
    /\ cpc' = "arm"
    /\ UNCHANGED <<ltmp, decVars, setCount, hits, prompt_ready, stop_event, timers, rdrVars,
                   port, writes, wifi_config, cpend, nCmds, lastMsg, wt>>

\* unregister_status_waiter: with status_waiters_lock
UnregisterLock(id) ==
    /\ wt[id].pc = "unregister"
    /\ Acquire(id)
    /\ wt' = [wt EXCEPT ![id].pc = "filter"]
    /\ UNCHANGED <<ltmp, decVars, regVars, rdrVars,
                   port, writes, wifi_config, cpc, cpend, nCmds, lastMsg>>

\* unregister_status_waiter: the comprehension [w for w in status_waiters if ...]
UnregisterFilter(id) ==
    /\ wt[id].pc = "filter"
    /\ ltmp' = [ltmp EXCEPT ![id] = unregister_status_waiter(status_waiters, id)]
    /\ wt' = [wt EXCEPT ![id].pc = "assign"]
    /\ UNCHANGED <<lock, decVars, regVars, rdrVars,
                   port, writes, wifi_config, cpc, cpend, nCmds, lastMsg>>

\* unregister_status_waiter: status_waiters[:] = ... and the end of the block
UnregisterAssign(id) ==
    /\ wt[id].pc = "assign"
    /\ status_waiters' = ltmp[id]
    /\ ltmp' = [ltmp EXCEPT ![id] = <<>>]
    /\ lock' = LockFree
    /\ wt' = [wt EXCEPT ![id].pc = "release"]
    /\ UNCHANGED <<decVars, setCount, hits, prompt_ready, stop_event, timers, rdrVars,
                   port, writes, wifi_config, cpc, cpend, nCmds, lastMsg>>

\* Status codes the reader notifies in RegistrySpec: one per caller of
\* hold_prompt_until_status and one no caller waits for
NotifyCodes == {6, 10, 5}

\* The reader calls notify_status_waiters(status_str), as long as fewer than
\* MaxNotifies calls have been made
NotifyCall ==
    /\ rpc = "idle"
    /\ nChunks < MaxNotifies
    /\ nChunks' = nChunks + 1
    /\ \E code \in NotifyCodes : rev' = StatusEvent(<<192, 168, 1, 42, code>>)
    /\ rpc' = "notify"
    /\ UNCHANGED <<lockVars, decVars, regVars, conVars, rtriggered, awaitedSeen, leftover>>

\* notify_status_waiters: with status_waiters_lock
NotifyLock ==
    /\ rpc = "notify"
    /\ Acquire(ReaderThread)
    /\ rpc' = "filter"
    /\ UNCHANGED <<ltmp, decVars, regVars, conVars, rev, rtriggered, nChunks, awaitedSeen,
                   leftover>>

\* notify_status_waiters: triggered = [...] and the comprehension on the right
\* of status_waiters[:] = [...]
NotifyFilter ==
    /\ rpc = "filter"
    /\ LET triggered == NotifyTriggered(status_waiters, rev.name)
       IN  /\ rtriggered' = [i \in 1..Len(triggered) |-> triggered[i].event]
           /\ hits' = [id \in Ids |-> IF id \in EventsOf(triggered)
                                      THEN hits[id] + 1 ELSE hits[id]]
    /\ ltmp' = [ltmp EXCEPT ![ReaderThread] = NotifyKept(status_waiters, rev.name)]
    /\ rpc' = "assign"
    /\ UNCHANGED <<lock, decVars, status_waiters, setCount, prompt_ready, stop_event, timers,
                   conVars, rev, nChunks, awaitedSeen, leftover>>

\* notify_status_waiters: status_waiters[:] = ... and the end of the block
NotifyAssign ==
    /\ rpc = "assign"
    /\ status_waiters' = ltmp[ReaderThread]
    /\ ltmp' = [ltmp EXCEPT ![ReaderThread] = <<>>]
    /\ lock' = LockFree
    /\ rev' = NoEvent
    /\ rpc' = IF rtriggered = <<>> THEN "decode" ELSE "fire"
    /\ UNCHANGED <<decVars, setCount, hits, prompt_ready,
                   stop_event, timers, conVars, rtriggered, nChunks, awaitedSeen, leftover>>

RegInit ==
    /\ buffer = <<>> /\ stream = <<>> /\ events = <<>> /\ notified = <<>>
    /\ truncated = FALSE
    /\ status_waiters = <<>>
    /\ setCount = [id \in Ids |-> 0]
    /\ hits = [id \in Ids |-> 0]
    /\ prompt_ready = TRUE
    /\ stop_event = FALSE
    /\ timers = {}
    /\ port = "open"
    /\ writes = <<>>
    /\ wifi_config = <<>>
    /\ cpc = "wait"
    /\ cpend = NoPend
    /\ nCmds = 0
    /\ lastMsg = ""
    /\ wt = [id \in Ids |-> NoThread]
    /\ rpc = "idle"
    /\ rev = NoEvent
    /\ rtriggered = <<>>
    /\ nChunks = 0
    /\ awaitedSeen = {}
    /\ leftover = 0
    /\ lock = LockFree
    /\ ltmp = NoLocals

RegWaitThread(id) ==
    \/ WaitSignalled(id) \/ WaitTimeout(id)
    \/ UnregisterLock(id) \/ UnregisterFilter(id) \/ UnregisterAssign(id)
    \/ WaitRelease(id)

RegNext ==
    \/ HoldCall \/ RegisterLock \/ RegisterAppend \/ ConsoleArm
    \/ \E id \in Ids : RegWaitThread(id)
    \/ NotifyCall \/ NotifyLock \/ NotifyFilter \/ NotifyAssign \/ ReaderFire \/ ReaderDecode

RegistrySpec == RegInit /\ [][RegNext]_vars

-----------------------------------------------------------------------------
(* Properties of the console, the gate and the registry *)

Range(q) == {q[i] : i \in 1..Len(q)}

Last(q) == q[Len(q)]

Running(id) == wt[id].pc \in {"wait", "unregister", "release"}

\* No waiter is registered, no command's hold timer is pending and no
\* wait_and_release thread has its release still to come.
NothingInFlight ==
    /\ status_waiters = <<>>
    /\ \A t \in timers : t.id = 0
    /\ \A id \in Ids : ~Running(id)

\* C2: the console never reads and dispatches a command while a waiter armed by an
\* earlier command is registered or an earlier command's scheduled release (hold
\* timer, or the release of a holdUntilStatus thread) has not happened yet.
C2_OneCommandInFlight ==
    [][ (/\ cpc = "input" /\ nCmds' # nCmds
         /\ \E line \in Lines :
                /\ line.kind = "tokens"
                /\ \E found \in FoundChoices(line), fault \in FaultChoices(line) :
                        ConsoleInput(line, found, fault))
        => NothingInFlight ]_vars

\* C3: whenever a handler is in progress or the gate is not ready, the gate
\* eventually is ready with the console back in its loop, whatever the device sends.
C3_EveryDispatchReleases ==
    (cpc \in {"register", "arm"} \/ ~prompt_ready)
        ~> (prompt_ready /\ cpc \in {"wait", "input", "stopped"})

C3_Witness ==
    /\ nChunks = 0
    /\ Len(writes) >= 1
    /\ nCmds >= 1
    /\ cpc = "input"
    /\ prompt_ready
    /\ timers = {}

\* C5: a waiter that a notify found registered and interested is removed from the
\* registry and its signal is set exactly once; no later notify finds it or sets
\* it again.
C5_FiresOnceAndRemoved ==
    \A id \in Ids :
        /\ hits[id] <= 1
        /\ setCount[id] <= hits[id]
        /\ hits[id] = 1 => /\ ~InRegistry(id)
                           /\ (setCount[id] = 1 \/ id \in Range(rtriggered))

C5_Witness ==
    \E id \in Ids :
        /\ hits[id] = 1
        /\ setCount[id] = 1
        /\ ~InRegistry(id)
        /\ rpc = "idle"
        /\ notified = <<"SCAN_CYCLE_END", "SCAN_CYCLE_END">>
        /\ writes = <<"scan -all">>

\* C6: a holdUntilStatus call marks the gate not-ready; its thread always ends,
\* and it ends by setting the gate with its waiter out of the registry, also when
\* no awaited status is ever notified (timeout, unregister, fallback delay, release).
\* A started thread is never unstarted and a finished one stays finished, so
\* "eventually always not started or finished" says every started thread finishes.
C6_HoldUntilStatusReleases ==
    /\ [][ (cpc = "arm" /\ cpc' # "arm") => ~prompt_ready' ]_vars
    /\ [][ \A id \in Ids :
              (wt[id].pc # "done" /\ wt'[id].pc = "done")
                  => (prompt_ready' /\ id \notin EventsOf(status_waiters')) ]_vars
    /\ [][ \A id \in Ids :
              /\ wt[id].pc # "none" => wt'[id].pc # "none"
              /\ wt[id].pc = "done" => wt'[id].pc = "done" ]_vars
    /\ \A id \in Ids : <>[](wt[id].pc \in {"none", "done"})

C6_Witness ==
    \E id \in Ids :
        /\ wt[id].pc = "done"
        /\ ~wt[id].triggered
        /\ setCount[id] = 0
        /\ hits[id] = 0
        /\ ~InRegistry(id)
        /\ prompt_ready

\* C7: once a waiting command's text is written, an awaited status decoded before
\* the timeout fires the command's waiter, and the thread releases the gate
\* without taking the timeout path.
C7_AwaitedFrameFiresWaiter ==
    \A id \in awaitedSeen :
        /\ setCount[id] >= 1 \/ id \in Range(rtriggered)
        /\ wt[id].pc \in {"release", "done"} => wt[id].triggered

\* Lines that validation rejects: a target that is not an IPv4 address, an index
\* outside the saved networks, a missing or invalid option combination.
RejectedNow(line) ==
    \/ line \in {Line("tokens", <<"scan", "-t", a>>) :
                    a \in {"999.999.999.999", "10.0.0", "host"}}
    \/ line \in {Line("tokens", <<"join">> \o a) : a \in
                    {<<>>, <<"-i">>, <<"-i", "x">>, <<"-s">>, <<"-s", "home">>,
                     <<"-p", "pw1">>, <<"-s", "home", "-p">>, <<"-x">>,
                     <<"-i", "-1">>, <<"-i", "5", "-s", "home", "-p", "pw1">>}}
    \/ line = Line("tokens", <<"join", "-i", "0">>) /\ Len(wifi_config) < 1
    \/ line = Line("tokens", <<"join", "-i", "1">>) /\ Len(wifi_config) < 2

\* C8: a command rejected by validation writes nothing to the transport, registers
\* no waiter and releases the gate through the default-delay hold.
\* (Stated contrapositively: a console step that does not have this effect is
\* not the dispatch of a rejected line.)
C8_RejectedCommandWritesNothing ==
    [][ (cpc = "input" /\ nCmds' # nCmds) =>
        \/ /\ writes' = writes
           /\ status_waiters' = status_waiters
           /\ cpc' = "wait"
           /\ wt' = wt
           /\ ~prompt_ready'
           /\ timers' = timers \cup {[id |-> nCmds', delay |-> DEFAULT_PROMPT_DELAY]}
           /\ timers' # timers
        \/ \A line \in {l \in Lines : RejectedNow(l)}, fault \in BOOLEAN :
              ~ConsoleInput(line, TRUE, fault) ]_vars

C8_Witness ==
    /\ port = "open"
    /\ lastMsg = "Error: Invalid IPv4 address."
    /\ writes = <<>>
    /\ status_waiters = <<>>
    /\ ~prompt_ready
    /\ [id |-> nCmds, delay |-> DEFAULT_PROMPT_DELAY] \in timers

\* The console has dispatched exit, quit or q
ExitDispatched == lastMsg = "Exit requested. Stopping server..."

ExitLines == {Line("tokens", <<v>>) : v \in {"exit", "quit", "q"}}

\* C13: the dispatch of exit, quit or q sets stop_event and sets the gate in the same
\* step, starting no timer and no wait; from then on the console reads no line and
\* never is at input() again, and it ends up stopped.
C13_ExitStopsConsole ==
    /\ [][ (cpc = "input" /\ nCmds' # nCmds) =>
            \A line \in ExitLines, fault \in BOOLEAN :
                ConsoleInput(line, TRUE, fault) =>
                    /\ stop_event' /\ prompt_ready'
                    /\ timers' = timers /\ wt' = wt
                    /\ status_waiters' = status_waiters /\ writes' = writes
                    /\ cpc' \notin {"register", "arm"} ]_vars
    /\ [][ ExitDispatched =>
            /\ nCmds' = nCmds /\ cpc' \in {"wait", "stopped"}
            /\ stop_event' /\ ExitDispatched' ]_vars
    /\ <>[](ExitDispatched => cpc = "stopped")

C13_Witness ==
    /\ ExitDispatched
    /\ cpc = "stopped"
    /\ stop_event /\ prompt_ready
    /\ nCmds = 1
    /\ timers # {}
    /\ writes = <<>>

\* Lines whose handler reaches esp32_serial_port.write when the transport is ready
SendingLines ==
    {l \in Lines : /\ l.kind = "tokens"
                   /\ Lower(l.tokens[1]) \in Verbs
                   /\ command_map(Lower(l.tokens[1]), Tail(l.tokens),
                                  wifi_config, TRUE).send # ""}

\* The last command ended in the `except Exception` clause of the dispatch loop
HandlerFaulted == lastMsg = "Command failed"

\* C14: when the write of a handler raises after the readiness check, the step
\* writes nothing, arms no waiter, does not set stop_event and holds the prompt for
\* the default delay; after it the console thread stops only by reading a further
\* line, and it gets back to input().
C14_HandlerFaultIsCaught ==
    /\ [][ (cpc = "input" /\ nCmds' # nCmds /\ port = "open") =>
            \/ /\ ~prompt_ready' /\ cpc' = "wait" /\ ~stop_event'
               /\ timers' = timers \cup {[id |-> nCmds', delay |-> DEFAULT_PROMPT_DELAY]}
               /\ timers' # timers
               /\ writes' = writes /\ status_waiters' = status_waiters /\ wt' = wt
            \/ \A line \in SendingLines : ~ConsoleInput(line, TRUE, TRUE) ]_vars
    /\ [][ (HandlerFaulted /\ cpc # "stopped" /\ ~stop_event
                /\ (cpc' = "stopped" \/ stop_event')) => nCmds' # nCmds ]_vars
    /\ (HandlerFaulted /\ cpc = "wait") ~> (cpc = "input")

C14_Witness ==
    /\ HandlerFaulted
    /\ cpc = "input"
    /\ prompt_ready
    /\ timers = {}
    /\ nCmds = 1
    /\ writes = <<>>
    /\ wifi_config = <<[ssid |-> "home", password |-> "pw2"]>>

\* C15: a unit the decoder takes out of the buffer never consists of bytes read
\* before a read fault together with bytes read after the reconnect.
C15_NoSessionMixing ==
    [][ (rpc = "decode" /\ Len(buffer') < Len(buffer)) =>
            ~(leftover > 0 /\ leftover < Len(buffer) - Len(buffer')) ]_vars

\* C16: the reader step that decodes a frame with status code 16 goes on to look at
\* the registry; when that look finds no waiter the reader releases the prompt, and
\* the release sets the gate; the notify follows in every case.
C16_DeviceReadyReleases ==
    /\ [][ (rpc = "decode" /\ rev' # rev /\ rev'.code = 16) => rpc' = "check" ]_vars
    /\ [][ (rpc = "check" /\ rpc' # "check") =>
                rpc' = (IF status_waiters = <<>> THEN "release" ELSE "notify") ]_vars
    /\ [][ (rpc = "release" /\ rpc' # "release") =>
                (prompt_ready' /\ rpc' = "notify") ]_vars

\* Where a wait_and_release thread stands, in program order
Rank(pc) ==
    CASE pc = "none" -> 0 [] pc = "wait" -> 1 [] pc = "unregister" -> 2
      [] pc = "release" -> 3 [] pc = "done" -> 4 [] OTHER -> 2

\* The thread of id took the timeout path and its unregister has run
TimedOutUnregistered(id) == wt[id].pc \in {"release", "done"} /\ ~wt[id].triggered

\* C18: however a timeout-driven unregister and a notify for the same waiter
\* interleave, the wait_and_release thread releases the gate exactly once: it
\* moves forward only, sets the gate in its last step and always gets there.  A
\* notify that runs after the timeout path has unregistered the waiter fires
\* nothing for it, leaves the gate alone and does not put the waiter back.
C18_LateNotifyDropped ==
    /\ [][ \A id \in Ids :
              /\ Rank(wt[id].pc) <= Rank(wt'[id].pc)
              /\ (wt[id].pc = "release" /\ wt'[id].pc # "release")
                    => wt'[id].pc = "done" /\ prompt_ready'
              /\ wt[id].pc = "done" => wt'[id] = wt[id] ]_vars
    /\ [][ (rpc = "notify" /\ rpc' # "notify") =>
              /\ prompt_ready' = prompt_ready
              /\ EventsOf(status_waiters') \subseteq EventsOf(status_waiters)
              /\ \A id \in Ids :
                    TimedOutUnregistered(id) =>
                        /\ hits'[id] = hits[id]
                        /\ id \notin Range(rtriggered')
                        /\ id \notin EventsOf(status_waiters') ]_vars
    /\ [][ \A id \in Ids :
              setCount'[id] # setCount[id] => rpc = "fire" /\ id = Head(rtriggered) ]_vars
    /\ [][ rpc = "fire" => prompt_ready' = prompt_ready \/ rpc' = "fire" ]_vars
    /\ <>[](\A id \in Ids : wt[id].pc \in {"none", "done"})

C18_Witness ==
    /\ writes = <<"scan -all">>
    /\ notified = <<"SCAN_CYCLE_END">>
    /\ rpc = "idle"
    /\ wt[1].pc = "done" /\ ~wt[1].triggered
    /\ hits[1] = 0 /\ setCount[1] = 0
    /\ status_waiters = <<>>
    /\ prompt_ready

\* C19 as stated: once a wait_and_release thread has finished, fired or timed
\* out, its waiter is not in the registry; and whenever no wait_and_release
\* thread is running the registry is empty.
C19_NoStaleWaiter ==
    /\ \A id \in Ids : wt[id].pc = "done" => ~InRegistry(id)
    /\ (\A id \in Ids : ~Running(id)) => status_waiters = <<>>

\* C19, amended: once a wait_and_release thread has finished, fired or timed
\* out, its waiter is not in the registry; and whenever no wait_and_release
\* thread is running, the registry holds at most the waiter of a
\* hold_prompt_until_status call that has registered it and not yet started its
\* thread.
C19_NoStaleWaiterOutsideHold ==
    /\ \A id \in Ids : wt[id].pc = "done" => ~InRegistry(id)
    /\ (\A id \in Ids : ~Running(id)) =>
            IF cpc = "arm" THEN EventsOf(status_waiters) \subseteq {cpend.id}
                           ELSE status_waiters = <<>>

C19_Witness ==
    /\ wt[1].pc = "done" /\ ~wt[1].triggered
    /\ setCount[1] = 0
    /\ notified = <<>>
    /\ writes # <<>>
    /\ status_waiters = <<>>
    /\ cpc = "wait"

-----------------------------------------------------------------------------
(* Properties of the registry under free callers (RegistrySpec) *)

\* The waiters of ws whose interest set contains status
Interested(ws, status) == {ws[i].event : i \in {j \in 1..Len(ws) : status \in ws[j].statuses}}

\* Where the waiter of event id sits in ws
Pos(ws, id) == CHOOSE i \in 1..Len(ws) : ws[i].event = id

\* C17: notify(name) removes from the registry and fires exactly the waiters
\* whose interest set contains name, all of them before the call returns; every
\* other waiter stays registered with its record, unfired and in its original
\* relative order; a notify that matches no waiter leaves the registry and all
\* signals unchanged.
C17_NotifyPartitions ==
    /\ [][ (rpc = "assign" /\ rpc' # "assign") =>
                /\ Range(rtriggered) = Interested(status_waiters, rev.name)
                /\ Len(rtriggered) = Cardinality(Interested(status_waiters, rev.name))
                /\ EventsOf(status_waiters')
                        = EventsOf(status_waiters) \ Interested(status_waiters, rev.name)
                /\ Range(status_waiters') \subseteq Range(status_waiters)
                /\ Len(status_waiters') = Cardinality(EventsOf(status_waiters'))
                /\ \A i, j \in 1..Len(status_waiters') :
                        i < j => Pos(status_waiters, status_waiters'[i].event)
                                    < Pos(status_waiters, status_waiters'[j].event)
                /\ setCount' = setCount
                /\ Interested(status_waiters, rev.name) = {} =>
                        status_waiters' = status_waiters /\ rpc' = "decode" ]_vars
    /\ [][ setCount' # setCount =>
                /\ rpc = "fire"
                /\ rtriggered # <<>>
                /\ setCount' = [setCount EXCEPT ![Head(rtriggered)] = @ + 1]
                /\ rtriggered' = Tail(rtriggered)
                /\ status_waiters' = status_waiters ]_vars
    /\ [][ (rpc \in {"assign", "fire"} /\ rpc' \notin {"assign", "fire"}) =>
                rtriggered' = <<>> ]_vars
    /\ [][ rtriggered' # rtriggered => rpc \in {"filter", "fire"} ]_vars

C17_Witness ==
    /\ rpc = "idle" /\ nChunks = 1 /\ rtriggered = <<>>
    /\ \E a, b, c \in Ids :
            /\ a # b
            /\ setCount[a] = 1 /\ setCount[b] = 1 /\ setCount[c] = 0
            /\ EventsOf(status_waiters) = {c}
            /\ wt[a].pc = "wait" /\ wt[b].pc = "wait" /\ wt[c].pc = "wait"
\* A notify_status_waiters call is between its entry and its return
NotifyInProgress == rpc \in {"notify", "filter", "assign", "fire"}

\* C20: register, unregister and notify on different threads act on the waiter
\* list as if run one at a time.  A waiter leaves the registry only through its
\* own unregister or a notify of a name in its interest set, so one registered
\* while a notify for another name is in progress stays registered; any other
\* step leaves the waiters already there in place; a waiter whose signal is
\* still to be set by a notify is not in the registry; a signal is set only by
\* a thread that does not hold status_waiters_lock; and a statement inside a
\* with block runs only in the thread that holds the lock.
C20_RegistryLinearizable ==
    /\ [][ \A i \in 1..Len(status_waiters) :
              status_waiters[i].event \notin EventsOf(status_waiters') =>
                  \/ wt[status_waiters[i].event].pc = "assign"
                        /\ wt'[status_waiters[i].event].pc = "release"
                  \/ rpc = "assign" /\ rpc' # "assign"
                        /\ rev.name \in status_waiters[i].statuses ]_vars
    /\ [][ (cpc = "append" /\ cpc' = "arm") =>
              /\ status_waiters' = Append(status_waiters, Last(status_waiters'))
              /\ Last(status_waiters').event = cpend.id
              /\ Last(status_waiters').statuses = cpend.statuses ]_vars
    /\ [][ Len(status_waiters') > Len(status_waiters) => cpc = "append" /\ cpc' = "arm" ]_vars
    /\ [][ rpc' = "fire" =>
              \A id \in Range(rtriggered') : id \notin EventsOf(status_waiters') ]_vars
    /\ [][ setCount' # setCount =>
              /\ lock # ReaderThread
              /\ \E id \in Ids : /\ setCount' = [setCount EXCEPT ![id] = @ + 1]
                                   /\ id \notin EventsOf(status_waiters) ]_vars
    /\ [][ /\ cpc = "append" => lock = ConsoleThread
           /\ rpc \in {"filter", "assign"} => lock = ReaderThread
           /\ \A id \in Ids : wt[id].pc \in {"filter", "assign"} => lock = id ]_vars

C20_Witness ==
    /\ cpc = "append" /\ lock = ConsoleThread
    /\ rpc = "notify" /\ rev.name \notin cpend.statuses
    /\ \E id \in Ids : wt[id].pc = "unregister" /\ InRegistry(id)
-----------------------------------------------------------------------------
(* The buffer between chunks (DecoderSpec) *)

\* C21 as stated: once a chunk has been processed the buffer holds at most 2048
\* bytes, and if its first byte is the marker it holds fewer than 6 bytes.
C21_BufferBound ==
    /\ Len(buffer) <= BufferCap
    /\ (buffer # <<>> /\ buffer[1] = MAGIC_BYTE) => Len(buffer) < 1 + report_size

\* C21, amended: once a chunk has been processed the buffer holds at most 2048
\* bytes, and if its first byte is the marker it holds fewer than 6 bytes unless
\* the processing of that chunk ended by cutting an unterminated buffer of more
\* than 2048 bytes to its trailing 256 bytes, which then are the buffer as they
\* are, marker at the head or not.
C21_BufferBoundUnlessCut ==
    [][ stream' # stream =>
          \A nb \in {buffer \o NewBytes} :
            /\ Len(buffer') <= BufferCap
            /\ (buffer' # <<>> /\ buffer'[1] = MAGIC_BYTE) =>
                  \/ Len(buffer') < 1 + report_size
                  \/ /\ truncated'
                     /\ Len(nb) > BufferCap
                     /\ Len(buffer') = BufferKeep
                     /\ buffer' = SubSeq(nb, Len(nb) - BufferKeep + 1, Len(nb)) ]_vars

C21_Witness ==
    /\ truncated
    /\ Len(buffer) = BufferKeep
    /\ buffer[1] = MAGIC_BYTE
    /\ Len(stream) = BufferCap + 1
    /\ events = <<>>
-----------------------------------------------------------------------------
(* Commands for the device while no port is open *)

\* The lines whose verb is a handler that talks to the device
DeviceLines ==
    {l \in Lines : /\ l.kind = "tokens"
                   /\ Lower(l.tokens[1]) \in {"join", "scan", "randomize_mac",
                                               "randomise_mac", "reboot"}}

\* C22: when join, scan, randomize_mac or reboot is dispatched while the port is
\* absent or not open, the step writes nothing, registers no waiter, starts no
\* wait_and_release thread and holds the prompt with a timer of the default
\* delay; a timer that goes sets the gate, and every timer goes.
C22_NotConnectedHoldsDefault ==
    /\ [][ (cpc = "input" /\ nCmds' # nCmds /\ port # "open") =>
            \/ /\ writes' = writes
               /\ status_waiters' = status_waiters
               /\ wt' = wt
               /\ cpend' = cpend
               /\ cpc' = "wait"
               /\ ~prompt_ready'
               /\ ~stop_event'
               /\ timers' = timers \cup {[id |-> nCmds', delay |-> DEFAULT_PROMPT_DELAY]}
               /\ timers' # timers
            \/ \A line \in DeviceLines, fault \in BOOLEAN :
                    ~ConsoleInput(line, TRUE, fault) ]_vars
    /\ [][ timers \ timers' # {} => prompt_ready' ]_vars
    /\ <>[](timers = {})

C22_Witness ==
    /\ lastMsg = "ESP32 is not connected."
    /\ port = "none"
    /\ writes = <<>>
    /\ status_waiters = <<>>
    /\ cpc = "wait"
    /\ ~prompt_ready
    /\ timers = {[id |-> 1, delay |-> DEFAULT_PROMPT_DELAY]}
====
